---- MODULE Spec2Model ----
(***************************************************************************)
(* A model of cache.c: a set-associative write-back cache simulator.      *)
(*                                                                         *)
(* uword_t / word_t values are 64-bit and are kept at full width, as four  *)
(* 16-bit limbs <<l1, l2, l3, l4>> (l1 the least significant): the model   *)
(* checker's integers are narrower than the program's words.  Small        *)
(* quantities (array indices, counters, byte values, lru stamps) are       *)
(* integers.                                                               *)
(*                                                                         *)
(* Undefined behaviour of the C code is a choice over outcomes: the        *)
(* operators that model a C function return the SET of its outcomes.       *)
(***************************************************************************)
EXTENDS Integers, Sequences, FiniteSets, TLC

ADDRESS_LENGTH == 64

\* operation_t (cache.h): the two kinds of access; `false` converts to READ.
READ == 0
WRITE == 1
Operations == {READ, WRITE}

(***************************************************************************)
(* 64-bit words                                                            *)
(***************************************************************************)
Pow2(n) == 2^n

\* a limb holds 16 bits; a word is four limbs
Base == Pow2(16)
Limbs == 1..(ADDRESS_LENGTH \div 16)

Zero == <<0, 0, 0, 0>>
MinusOne == <<Base - 1, Base - 1, Base - 1, Base - 1>>

\* the word whose value is the natural n < 2^31
W(n) == <<n % Base, n \div Base, 0, 0>>

\* x is small enough to index an array
Fits(x) == x[2] < Pow2(14) /\ x[3] = 0 /\ x[4] = 0

\* the value of a word that Fits
Nat64(x) == x[1] + Base * x[2]

\* limb k of x, zero below the word and `fill` above it
LimbAt(x, k, fill) == IF k \in Limbs THEN x[k] ELSE IF k < 1 THEN 0 ELSE fill

\* limb k of x << n
ShlLimb(x, n, k) ==
  ((LimbAt(x, k - (n \div 16), 0) * Pow2(n % 16)) % Base)
    + (LimbAt(x, k - (n \div 16) - 1, 0) \div Pow2(16 - (n % 16)))

\* limb k of x >> n, the vacated high bits taken from limbs of value `fill`
ShrLimb(x, n, k, fill) ==
  (LimbAt(x, k + (n \div 16), fill) \div Pow2(n % 16))
    + ((LimbAt(x, k + (n \div 16) + 1, fill) % Pow2(n % 16)) * Pow2(16 - (n % 16)))

\* x << n (unsigned) for a shift count 0 <= n < 64
Shl(x, n) == <<ShlLimb(x, n, 1), ShlLimb(x, n, 2), ShlLimb(x, n, 3), ShlLimb(x, n, 4)>>

\* x >> n (unsigned, logical) for a shift count 0 <= n < 64
Shr(x, n) ==
  <<ShrLimb(x, n, 1, 0), ShrLimb(x, n, 2, 0), ShrLimb(x, n, 3, 0), ShrLimb(x, n, 4, 0)>>

\* the limb of sign bits of a signed word_t
SignFill(x) == IF x[4] >= Pow2(15) THEN Base - 1 ELSE 0

\* x >> n for a signed word_t (arithmetic: copies of the sign bit come in)
Sar(x, n) ==
  <<ShrLimb(x, n, 1, SignFill(x)), ShrLimb(x, n, 2, SignFill(x)),
    ShrLimb(x, n, 3, SignFill(x)), ShrLimb(x, n, 4, SignFill(x))>>

\* a | b on numbers
RECURSIVE OrNat(_, _)
OrNat(a, b) ==
  IF a = 0 THEN b
  ELSE IF b = 0 THEN a
  ELSE (IF a % 2 = 1 \/ b % 2 = 1 THEN 1 ELSE 0) + 2 * OrNat(a \div 2, b \div 2)

Or(x, y) == <<OrNat(x[1], y[1]), OrNat(x[2], y[2]), OrNat(x[3], y[3]), OrNat(x[4], y[4])>>

\* The C shift operators.  A count outside 0..63 is undefined behaviour;
\* builds either mask the count to its low six bits (x86-64, AArch64) or
\* shift everything out.
ShiftCounts == 0..(ADDRESS_LENGTH - 1)
ShlC(x, n) ==
  IF n \in ShiftCounts THEN {Shl(x, n)} ELSE {Shl(x, n % ADDRESS_LENGTH), Zero}
ShrC(x, n) ==
  IF n \in ShiftCounts THEN {Shr(x, n)} ELSE {Shr(x, n % ADDRESS_LENGTH), Zero}

\* (byte_t) x : the low eight bits, as a number 0..255
LowByte(x) == x[1] % 256

(***************************************************************************)
(* Address decomposition                                                   *)
(***************************************************************************)
\* get_set_index: (addr << (64 - s - b)) >> (64 - s)
get_set_index(cache, addr) ==
  UNION { ShrC(t, ADDRESS_LENGTH - cache.s)
            : t \in ShlC(addr, ADDRESS_LENGTH - cache.s - cache.b) }

\* get_block_offset: (addr << (64 - b)) >> (64 - b)
get_block_offset(cache, addr) ==
  UNION { ShrC(t, ADDRESS_LENGTH - cache.b)
            : t \in ShlC(addr, ADDRESS_LENGTH - cache.b) }

\* the tag of check_hit: addr >> (s + b)
get_tag(cache, addr) == ShrC(addr, cache.s + cache.b)

(***************************************************************************)
(* The cache and the global counters                                       *)
(***************************************************************************)
\* create_cache: 2^s sets of E lines, every line invalid, clean, tag 0,
\* lru 0, with a zeroed block of 2^b bytes
create_cache(s_in, b_in, E_in, d_in) ==
  [s |-> s_in, b |-> b_in, E |-> E_in, d |-> d_in,
   sets |-> [i \in 0..(Pow2(s_in) - 1) |->
              [j \in 0..(E_in - 1) |->
                [valid |-> FALSE, tag |-> Zero, lru |-> 0, dirty |-> FALSE,
                 data |-> [k \in 0..(Pow2(b_in) - 1) |-> 0]]]]]

\* unsigned int holds 32 bits
UIntBits == 32

\* a count of 2^31 or more (the model's integers do not hold it)
TooMany == 0 - 1

\* (unsigned int) pow(2, n): the values S and B are given.  From n = 32 on
\* the double is outside unsigned int and the conversion is undefined:
\* builds keep the low 32 bits of a 64-bit conversion (0, x86-64) or
\* saturate (UINT_MAX, AArch64).
PowU(n) ==
  IF n < UIntBits - 1 THEN {Pow2(n)}
  ELSE IF n < UIntBits THEN {TooMany}
  ELSE {0, TooMany}

\* the cache_t create_cache builds once S and B are computed
create_cache_sized(s_in, b_in, E_in, d_in, S, B) ==
  [s |-> s_in, b |-> b_in, E |-> E_in, d |-> d_in,
   sets |-> [i \in 0..(S - 1) |->
              [j \in 0..(E_in - 1) |->
                [valid |-> FALSE, tag |-> Zero, lru |-> 0, dirty |-> FALSE,
                 data |-> [k \in 0..(B - 1) |-> 0]]]]]

\* a call of create_cache with any arguments: the outcomes [cache, status].
\* No argument is tested.  With TooMany sets the allocations run out of
\* memory and the unchecked NULL is written through.  (b_in < 31 here.)
create_cache_call(s_in, b_in, E_in, d_in) ==
  { IF S = TooMany
      THEN [cache |-> <<>>, status |-> "segv"]
      ELSE [cache |-> create_cache_sized(s_in, b_in, E_in, d_in, S, Pow2(b_in)),
            status |-> "ok"]
    : S \in PowU(s_in) }

\* sizeof(byte_t)
SizeofByte == 1

\* create_checkpoint: the outcomes [copy, status].  The struct and every
\* line's fields are copied; each line gets a fresh zeroed block, into which
\* memcpy copies sizeof(byte_t) bytes of the original's block.
create_checkpoint(c) ==
  { IF S = TooMany
      THEN [copy |-> <<>>, status |-> "segv"]
      ELSE [copy |->
              [c EXCEPT !.sets =
                 [i \in 0..(S - 1) |->
                   [j \in 0..(c.E - 1) |->
                     [c.sets[i][j] EXCEPT !.data =
                        [k \in 0..(Pow2(c.b) - 1) |->
                           IF k < SizeofByte THEN c.sets[i][j].data[k] ELSE 0]]]]],
            status |-> "ok"]
    : S \in PowU(c.s) }

VARIABLES
  cache,                 \* the cache_t the calls are made on
  miss_count,            \* the four global counters
  hit_count,
  dirty_eviction_count,
  clean_eviction_count,
  way,                   \* static: the way of the last hit
  status,                \* "ok", or "segv" once the process has faulted
  call,                  \* the last call made and what it did
  dest,                  \* what get_byte_cache / get_word_cache stored in *dest
  evicted,               \* the evicted_line_t of the last handle_miss
  ncalls,                \* calls made so far
  checkpoint,            \* the cache_t the last create_checkpoint returned
  dec                    \* the last address decomposition (decoder runs)

vars ==
  <<cache, miss_count, hit_count, dirty_eviction_count, clean_eviction_count,
    way, status, call, dest, evicted, ncalls, checkpoint, dec>>

\* the program state a function of cache.c reads and writes
St ==
  [cache |-> cache, miss_count |-> miss_count, hit_count |-> hit_count,
   dirty_eviction_count |-> dirty_eviction_count,
   clean_eviction_count |-> clean_eviction_count, way |-> way]

NumSets(c) == Pow2(c.s)
BlockSize(c) == Pow2(c.b)

\* a set index that names one of the cache's sets
InRange(c, set_index) == Fits(set_index) /\ Nat64(set_index) < NumSets(c)

(***************************************************************************)
(* check_hit                                                               *)
(***************************************************************************)
RECURSIVE check_hit_loop(_, _, _, _, _)

\* check_hit_loop with a hit that stamps the line's lru, taking hit_count for
\* the clock: stamps then collide with those already in the cache
check_hit_loop_stamps_hit_count(st, set_index, tag, operation, i) ==
  IF i >= st.cache.E
    THEN [st |-> [st EXCEPT !.miss_count = @ + 1], ret |-> FALSE, status |-> "ok"]
    ELSE IF st.cache.sets[set_index][i].valid /\ st.cache.sets[set_index][i].tag = tag
      THEN [st |-> [st EXCEPT !.hit_count = @ + 1, !.way = i,
                              !.cache.sets[set_index][i].lru = st.hit_count + 1],
            ret |-> TRUE, status |-> "ok"]
      ELSE check_hit_loop(st, set_index, tag, operation, i + 1)

\* check_hit_loop with `dirty = (operation == WRITE)` on a hit: a read hit
\* cleans the line
check_hit_loop_assigns_dirty(st, set_index, tag, operation, i) ==
  IF i >= st.cache.E
    THEN [st |-> [st EXCEPT !.miss_count = @ + 1], ret |-> FALSE, status |-> "ok"]
    ELSE IF st.cache.sets[set_index][i].valid /\ st.cache.sets[set_index][i].tag = tag
      THEN [st |-> [st EXCEPT !.hit_count = @ + 1,
                              !.way = i,
                              !.cache.sets[set_index][i].dirty = (operation = WRITE),
                              !.dirty_eviction_count =
                                 IF operation = WRITE THEN @ + 1 ELSE @],
            ret |-> TRUE, status |-> "ok"]
      ELSE check_hit_loop(st, set_index, tag, operation, i + 1)

\* the for loop of check_hit from way i on, and the miss after it
check_hit_loop(st, set_index, tag, operation, i) ==
  IF i >= st.cache.E
    THEN [st |-> [st EXCEPT !.miss_count = @ + 1], ret |-> FALSE, status |-> "ok"]
    ELSE IF st.cache.sets[set_index][i].valid /\ st.cache.sets[set_index][i].tag = tag
      THEN [st |-> IF operation = WRITE
                     THEN [st EXCEPT !.hit_count = @ + 1,
                                     !.way = i,
                                     !.cache.sets[set_index][i].dirty = TRUE,
                                     !.dirty_eviction_count = @ + 1]
                     ELSE [st EXCEPT !.hit_count = @ + 1, !.way = i],
            ret |-> TRUE, status |-> "ok"]
      ELSE check_hit_loop(st, set_index, tag, operation, i + 1)

\* check_hit with miss_count++ moved in front of the loop: a hit is counted
\* as a miss too
check_hit_counts_miss_first(st, addr, operation) ==
  { IF InRange(st.cache, set_index)
      THEN LET r == check_hit_loop(st, Nat64(set_index), tag, operation, 0)
           IN  IF r.ret THEN [r EXCEPT !.st.miss_count = @ + 1] ELSE r
      ELSE [st |-> st, ret |-> FALSE, status |-> "segv"]
    : set_index \in get_set_index(st.cache, addr), tag \in get_tag(st.cache, addr) }

\* check_hit: the outcomes [st, ret, status].  A set index outside the
\* sets array (possible only where the decoder's shifts are undefined) is
\* a wild read.
check_hit(st, addr, operation) ==
  { IF InRange(st.cache, set_index)
      THEN check_hit_loop(st, Nat64(set_index), tag, operation, 0)
      ELSE [st |-> st, ret |-> FALSE, status |-> "segv"]
    : set_index \in get_set_index(st.cache, addr), tag \in get_tag(st.cache, addr) }

(***************************************************************************)
(* select_line                                                             *)
(***************************************************************************)
\* the lru stamps the lines of the modelled caches carry: 0 as created,
\* or one of WarmStamps
WarmStamps == {1, 2}

\* `uword_t lru;` is read before it is ever written: an indeterminate
\* value.  The scan only compares it with the lines' stamps, so the values
\* 0..3 stand for every way those comparisons can come out.
UninitLru == {0} \cup WarmStamps \cup { r + 1 : r \in WarmStamps }

\* `unsigned int lru_way;` is returned unwritten when no comparison
\* succeeds: any index; E stands for every index outside the set's lines.
UninitWay(c) == 0..c.E

\* the for loop of select_line from way i on, and the return after it
RECURSIVE select_line_loop(_, _, _, _, _)
select_line_loop(c, set_index, i, lru, lru_way) ==
  IF i >= c.E
    THEN lru_way
    ELSE LET less == c.sets[set_index][i].lru < lru
             lru2 == IF less THEN c.sets[set_index][i].lru ELSE lru
             way2 == IF less THEN i ELSE lru_way
         IN  IF c.sets[set_index][i].valid = FALSE
               THEN i
               ELSE select_line_loop(c, set_index, i + 1, lru2, way2)

\* select_line with the scan begun at way 1 (`i = 1` for `i = 0`)
select_line_scans_from_way1(c, set_index) ==
  { select_line_loop(c, set_index, 1, lru, lru_way)
    : lru \in UninitLru, lru_way \in UninitWay(c) }

\* select_line: the ways (of set set_index) it can return a pointer to
select_line(c, set_index) ==
  { select_line_loop(c, set_index, 0, lru, lru_way)
    : lru \in UninitLru, lru_way \in UninitWay(c) }

(***************************************************************************)
(* handle_miss and access_data                                             *)
(***************************************************************************)
\* what a read through the pointer select_line returned sees: the line, or
\* for a pointer outside the set's lines memory whose contents are arbitrary
\* (the two flags the code looks at range over both values)
LineAt(c, set_index, w) ==
  IF w < c.E
    THEN {c.sets[set_index][w]}
    ELSE {[c.sets[set_index][0] EXCEPT !.valid = v, !.dirty = d] : v, d \in BOOLEAN}

NoEvicted == [valid |-> FALSE, dirty |-> FALSE, addr |-> Zero, data |-> <<>>]

\* no way was selected
NoWay == 0 - 1

\* the process faults on a wild access: nothing more is written
Fault(st) ==
  [st |-> st, status |-> "segv", hit |-> FALSE, victim |-> NoWay, evicted |-> NoEvicted]

\* handle_miss_line with `clean_eviction_count--` typed for `++`
handle_miss_line_decrements(st, set_index, block_offset, w, line) ==
  { [st |-> IF line.dirty
              THEN [st EXCEPT !.dirty_eviction_count = @ + 1]
              ELSE [st EXCEPT !.clean_eviction_count = @ - 1],
     status |-> "ok", hit |-> FALSE, victim |-> w,
     evicted |-> [valid |-> line.valid, dirty |-> line.dirty,
                  addr |-> Or(Or(t, x), block_offset),
                  data |-> line.data]]
    : t \in ShlC(line.tag, st.cache.s + st.cache.b),
      x \in ShlC(set_index, st.cache.b) }

\* handle_miss_line with a fill that marks the selected line valid and
\* leaves its tag as it was
handle_miss_line_marks_valid(st, set_index, block_offset, w, line) ==
  { [st |-> IF w < st.cache.E
              THEN [st EXCEPT !.cache.sets[Nat64(set_index)][w].valid = TRUE,
                              !.clean_eviction_count = @ + 1]
              ELSE [st EXCEPT !.clean_eviction_count = @ + 1],
     status |-> "ok", hit |-> FALSE, victim |-> w,
     evicted |-> [valid |-> line.valid, dirty |-> line.dirty,
                  addr |-> Or(Or(t, x), block_offset),
                  data |-> line.data]]
    : t \in ShlC(line.tag, st.cache.s + st.cache.b),
      x \in ShlC(set_index, st.cache.b) }

\* the body of handle_miss once select_line has returned `line` (way w of
\* the set): the eviction record is filled in and one eviction counter is
\* incremented.  No field of the line is written.
handle_miss_line(st, set_index, block_offset, w, line) ==
  { [st |-> IF line.dirty
              THEN [st EXCEPT !.dirty_eviction_count = @ + 1]
              ELSE [st EXCEPT !.clean_eviction_count = @ + 1],
     status |-> "ok", hit |-> FALSE, victim |-> w,
     evicted |-> [valid |-> line.valid, dirty |-> line.dirty,
                  addr |-> Or(Or(t, x), block_offset),
                  data |-> line.data]]
    : t \in ShlC(line.tag, st.cache.s + st.cache.b),
      x \in ShlC(set_index, st.cache.b) }

\* handle_miss: the outcomes [st, status, hit, victim, evicted]
handle_miss(st, addr, operation, incoming_data) ==
  UNION { IF ~InRange(st.cache, set_index)
            THEN {Fault(st)}
            ELSE UNION { UNION { handle_miss_line(st, set_index, block_offset, w, line)
                                 : line \in LineAt(st.cache, Nat64(set_index), w) }
                         \cup (IF w < st.cache.E THEN {} ELSE {Fault(st)})
                         : w \in select_line(st.cache, Nat64(set_index)) }
          : set_index \in get_set_index(st.cache, addr),
            block_offset \in get_block_offset(st.cache, addr) }

\* access_data: check_hit, and handle_miss when it returned false
access_data(st, addr, operation) ==
  UNION { IF r.status = "ok" /\ ~r.ret
            THEN handle_miss(r.st, addr, operation, <<>>)
            ELSE {[st |-> r.st, status |-> r.status, hit |-> r.ret, victim |-> NoWay,
                   evicted |-> NoEvicted]}
          : r \in check_hit(st, addr, operation) }

(***************************************************************************)
(* get_line and the byte / word accessors                                  *)
(***************************************************************************)
NULL == <<>>

\* get_line: the outcomes [st, status, line], line = <<set index, way>> of
\* the hit or NULL.  It probes with check_hit(cache, addr, false), which
\* counts the probe as a hit or a miss.
get_line(st, addr) ==
  { [st |-> r.st, status |-> r.status,
     line |-> IF r.status = "ok" /\ r.ret THEN <<Nat64(set_index), r.st.way>> ELSE NULL]
    : set_index \in get_set_index(st.cache, addr), r \in check_hit(st, addr, READ) }

\* a block offset as an array index; one that is no small number (possible
\* only where the decoder's shifts are undefined) is some index past the block
BlockIndex(c, block_offset) ==
  IF Fits(block_offset) THEN Nat64(block_offset) ELSE BlockSize(c)

\* line->data[i] read: a byte of the block, or for i outside the block
\* whatever lies behind it
ReadData(data, i) == IF i \in DOMAIN data THEN {data[i]} ELSE 0..255

\* get_byte_cache: the outcomes [st, status, dest]; a NULL line faults
get_byte_cache(st, addr, dest0) ==
  UNION { IF l.line = NULL
            THEN {[st |-> l.st, status |-> "segv", dest |-> dest0]}
            ELSE { [st |-> l.st, status |-> "ok", dest |-> v]
                   : v \in ReadData(l.st.cache.sets[l.line[1]][l.line[2]].data,
                                    BlockIndex(l.st.cache, block_offset)) }
          : block_offset \in get_block_offset(st.cache, addr), l \in get_line(st, addr) }

\* line->data[i] && 0xFF : 1 when the byte is non-zero, else 0
AndAnd(data, i) ==
  IF i \in DOMAIN data THEN {IF data[i] # 0 THEN 1 ELSE 0} ELSE {0, 1}

\* the for loop of get_word_cache from byte i on: the values val can end with
RECURSIVE get_word_loop(_, _, _, _)
get_word_loop(data, block_offset, i, val) ==
  IF i >= 8
    THEN {val}
    ELSE UNION { get_word_loop(data, block_offset, i + 1, Or(val, Shl(W(bb), 8 * i)))
                 : bb \in AndAnd(data, i + block_offset) }

\* get_word_cache: the outcomes [st, status, dest]
get_word_cache(st, addr, dest0) ==
  UNION { IF l.line = NULL
            THEN {[st |-> l.st, status |-> "segv", dest |-> dest0]}
            ELSE { [st |-> l.st, status |-> "ok", dest |-> v]
                   : v \in get_word_loop(l.st.cache.sets[l.line[1]][l.line[2]].data,
                                         BlockIndex(l.st.cache, block_offset), 0, Zero) }
          : block_offset \in get_block_offset(st.cache, addr), l \in get_line(st, addr) }

\* set_byte_cache: the outcomes [st, status]; the byte is stored and the
\* line is marked dirty
set_byte_cache(st, addr, val) ==
  UNION { IF l.line = NULL
            THEN {[st |-> l.st, status |-> "segv"]}
            ELSE {[st |-> [l.st EXCEPT
                            !.cache.sets[l.line[1]][l.line[2]].data =
                               [k \in DOMAIN @ |-> IF k = BlockIndex(l.st.cache, block_offset) THEN val ELSE @[k]],
                            !.cache.sets[l.line[1]][l.line[2]].dirty = TRUE],
                   status |-> "ok"]}
          : block_offset \in get_block_offset(st.cache, addr), l \in get_line(st, addr) }

\* the for loop of set_word_cache from byte i on: the block after it.  A
\* store at an index outside the block lands outside the line's data.
RECURSIVE set_word_loop(_, _, _, _)
set_word_loop(data, block_offset, i, val) ==
  IF i >= 8
    THEN data
    ELSE set_word_loop([k \in DOMAIN data |->
                          IF k = block_offset + i THEN LowByte(val) ELSE data[k]],
                       block_offset, i + 1, Sar(val, 8))

\* set_word_cache: the outcomes [st, status].  When the eight bytes run past
\* the block the stores behind it corrupt the heap silently or fault.
set_word_cache(st, addr, val) ==
  UNION { IF l.line = NULL
            THEN {[st |-> l.st, status |-> "segv"]}
            ELSE LET bo == BlockIndex(l.st.cache, block_offset)
                     old == l.st.cache.sets[l.line[1]][l.line[2]].data
                     new == set_word_loop(old, bo, 0, val)
                 IN  {[st |-> [l.st EXCEPT
                                 !.cache.sets[l.line[1]][l.line[2]].data = new,
                                 !.cache.sets[l.line[1]][l.line[2]].dirty = TRUE],
                       status |-> "ok"]}
                     \cup (IF bo + 8 <= BlockSize(l.st.cache)
                             THEN {}
                             ELSE {[st |-> [l.st EXCEPT
                                     !.cache.sets[l.line[1]][l.line[2]].data = new],
                                    status |-> "segv"]})
          : block_offset \in get_block_offset(st.cache, addr), l \in get_line(st, addr) }

(***************************************************************************)
(* The calls made on the cache                                             *)
(***************************************************************************)
\* calls made in one run
MaxCalls == 2

\* the geometries run: [s, b, E]
Geometries ==
  { [s |-> 1, b |-> 3, E |-> 1], [s |-> 1, b |-> 3, E |-> 2] }

\* the address with the given tag, set index and block offset
Address(c, tag, set_index, block_offset) ==
  W(tag * Pow2(c.s + c.b) + set_index * Pow2(c.b) + block_offset)

\* the addresses passed in: three blocks of set 0, one at a non-zero
\* offset, and a block of set 1
Addrs(c) ==
  { Address(c, 0, 0, 0), Address(c, 1, 0, 0), Address(c, 2, 0, 0),
    Address(c, 0, 0, 1), Address(c, 1, 1, 0) }

\* the 64-bit values and the bytes passed in
Words == { W(258), MinusOne }
Bytes == { 171 }

NoCall ==
  [name |-> "none", addr |-> Zero, operation |-> READ, val |-> Zero, byte |-> 0,
   hit |-> FALSE, victim |-> NoWay, args |-> <<>>]

NoDest == [byte |-> 0, word |-> Zero]
NoDec == [s |-> 0, b |-> 0, addr |-> Zero, tag |-> Zero, set_index |-> Zero,
          block_offset |-> Zero]

\* the state after create_cache, the counters as the program starts them
Init ==
  /\ \E g \in Geometries : cache = create_cache(g.s, g.b, g.E, 0)
  /\ miss_count = 0
  /\ hit_count = 0
  /\ dirty_eviction_count = 0
  /\ clean_eviction_count = 0
  /\ way = 0
  /\ status = "ok"
  /\ call = NoCall
  /\ dest = NoDest
  /\ evicted = NoEvicted
  /\ ncalls = 0
  /\ checkpoint = NULL
  /\ dec = NoDec

\* a call can be made: the process is alive
CanCall == status = "ok" /\ ncalls < MaxCalls

\* the program state after a call
Store(st) ==
  /\ cache' = st.cache
  /\ miss_count' = st.miss_count
  /\ hit_count' = st.hit_count
  /\ dirty_eviction_count' = st.dirty_eviction_count
  /\ clean_eviction_count' = st.clean_eviction_count
  /\ way' = st.way

AccessData ==
  /\ CanCall
  /\ \E addr \in Addrs(cache), operation \in Operations :
       \E o \in access_data(St, addr, operation) :
         /\ Store(o.st)
         /\ status' = o.status
         /\ evicted' = o.evicted
         /\ call' = [NoCall EXCEPT !.name = "access_data", !.addr = addr,
                                   !.operation = operation, !.hit = o.hit,
                                   !.victim = o.victim]
  /\ ncalls' = ncalls + 1
  /\ UNCHANGED <<dest, checkpoint, dec>>

GetByteCache ==
  /\ CanCall
  /\ \E addr \in Addrs(cache) :
       \E o \in get_byte_cache(St, addr, dest.byte) :
         /\ Store(o.st)
         /\ status' = o.status
         /\ dest' = [dest EXCEPT !.byte = o.dest]
         /\ call' = [NoCall EXCEPT !.name = "get_byte_cache", !.addr = addr]
  /\ ncalls' = ncalls + 1
  /\ UNCHANGED <<evicted, checkpoint, dec>>

GetWordCache ==
  /\ CanCall
  /\ \E addr \in Addrs(cache) :
       \E o \in get_word_cache(St, addr, dest.word) :
         /\ Store(o.st)
         /\ status' = o.status
         /\ dest' = [dest EXCEPT !.word = o.dest]
         /\ call' = [NoCall EXCEPT !.name = "get_word_cache", !.addr = addr]
  /\ ncalls' = ncalls + 1
  /\ UNCHANGED <<evicted, checkpoint, dec>>

SetByteCache ==
  /\ CanCall
  /\ \E addr \in Addrs(cache), val \in Bytes :
       \E o \in set_byte_cache(St, addr, val) :
         /\ Store(o.st)
         /\ status' = o.status
         /\ call' = [NoCall EXCEPT !.name = "set_byte_cache", !.addr = addr,
                                   !.byte = val]
  /\ ncalls' = ncalls + 1
  /\ UNCHANGED <<dest, evicted, checkpoint, dec>>

SetWordCache ==
  /\ CanCall
  /\ \E addr \in Addrs(cache), val \in Words :
       \E o \in set_word_cache(St, addr, val) :
         /\ Store(o.st)
         /\ status' = o.status
         /\ call' = [NoCall EXCEPT !.name = "set_word_cache", !.addr = addr,
                                   !.val = val]
  /\ ncalls' = ncalls + 1
  /\ UNCHANGED <<dest, evicted, checkpoint, dec>>

CreateCheckpoint ==
  /\ CanCall
  /\ \E o \in create_checkpoint(cache) :
       /\ status' = o.status
       /\ checkpoint' = IF o.status = "ok" THEN o.copy ELSE checkpoint
  /\ call' = [NoCall EXCEPT !.name = "create_checkpoint"]
  /\ ncalls' = ncalls + 1
  /\ UNCHANGED <<cache, miss_count, hit_count, dirty_eviction_count,
                 clean_eviction_count, way, dest, evicted, dec>>

Next ==
  \/ AccessData
  \/ GetByteCache
  \/ GetWordCache
  \/ SetByteCache
  \/ SetWordCache
  \/ CreateCheckpoint

\* a run of the program from create_cache
Spec == Init /\ [][Next]_vars

(***************************************************************************)
(* Calls on a cache that already holds blocks                              *)
(*                                                                         *)
(* No function of cache.c sets a line's valid flag, so a run from          *)
(* create_cache never hits.  The hit paths of check_hit, get_line and the  *)
(* accessors run only on a cache_t whose lines the caller made valid       *)
(* (cache_t is a plain struct of cache.h).  InitWarm draws such caches:    *)
(* set 0 holds any lines that agree with the data model (tags unique in    *)
(* the set, stamps distinct), the other sets are as created.               *)
(***************************************************************************)
WarmTags == {0, 1}

CreatedLine(c) == c.sets[0][0]

WarmLines(c) ==
  { [valid |-> TRUE, tag |-> W(tg), lru |-> r, dirty |-> d, data |-> CreatedLine(c).data]
    : tg \in WarmTags, r \in WarmStamps, d \in BOOLEAN }

WarmSets(c) ==
  { ls \in [0..(c.E - 1) -> WarmLines(c) \cup {CreatedLine(c)}] :
      \A i, j \in 0..(c.E - 1) :
        (i # j /\ ls[i].valid /\ ls[j].valid)
          => (ls[i].tag # ls[j].tag /\ ls[i].lru # ls[j].lru) }

WarmCaches ==
  UNION { LET c == create_cache(g.s, g.b, g.E, 0)
          IN  { [c EXCEPT !.sets[0] = ls] : ls \in WarmSets(c) }
          : g \in Geometries }

InitWarm ==
  /\ cache \in WarmCaches
  /\ miss_count = 0
  /\ hit_count = 0
  /\ dirty_eviction_count = 0
  /\ clean_eviction_count = 0
  /\ way = 0
  /\ status = "ok"
  /\ call = NoCall
  /\ dest = NoDest
  /\ evicted = NoEvicted
  /\ ncalls = 0
  /\ checkpoint = NULL
  /\ dec = NoDec

SpecWarm == InitWarm /\ [][Next]_vars

(***************************************************************************)
(* The address decoder on its own, over geometries with s + b <= 64        *)
(***************************************************************************)
DecodeGeometries ==
  { [s |-> 0, b |-> 0], [s |-> 0, b |-> 1], [s |-> 1, b |-> 0], [s |-> 1, b |-> 1],
    [s |-> 2, b |-> 3], [s |-> 4, b |-> 4], [s |-> 5, b |-> 6], [s |-> 16, b |-> 16],
    [s |-> 0, b |-> 64], [s |-> 64, b |-> 0], [s |-> 32, b |-> 32], [s |-> 1, b |-> 63],
    [s |-> 60, b |-> 3] }

DecodeAddrs ==
  { Zero, W(1), W(2), W(3), W(1000), MinusOne,
    <<1, 0, 0, 32768>>, <<4660, 22136, 39612, 57072>> }

\* decode one address the way check_hit and the accessors do
Decode ==
  /\ \E g \in DecodeGeometries, addr \in DecodeAddrs :
       \E tag \in get_tag(g, addr), set_index \in get_set_index(g, addr),
          block_offset \in get_block_offset(g, addr) :
         dec' = [s |-> g.s, b |-> g.b, addr |-> addr, tag |-> tag,
                 set_index |-> set_index, block_offset |-> block_offset]
  /\ UNCHANGED <<cache, miss_count, hit_count, dirty_eviction_count,
                 clean_eviction_count, way, status, call, dest, evicted, ncalls,
                 checkpoint>>

NextDecode == Decode

SpecDecode == Init /\ [][NextDecode]_vars

(***************************************************************************)
(* create_cache called with any geometry                                   *)
(***************************************************************************)
\* the arguments passed in: geometries in use, associativity 0, and index
\* and offset widths that add up to more than ADDRESS_LENGTH
CreateArgs ==
  { [s |-> 0, b |-> 0, E |-> 1, d |-> 0], [s |-> 1, b |-> 3, E |-> 1, d |-> 0],
    [s |-> 1, b |-> 3, E |-> 2, d |-> 1], [s |-> 2, b |-> 1, E |-> 1, d |-> 0],
    [s |-> 1, b |-> 3, E |-> 0, d |-> 0], [s |-> 0, b |-> 0, E |-> 0, d |-> 0],
    [s |-> 2, b |-> 2, E |-> 0, d |-> 1], [s |-> 61, b |-> 4, E |-> 1, d |-> 0],
    [s |-> 64, b |-> 1, E |-> 2, d |-> 0], [s |-> 62, b |-> 3, E |-> 1, d |-> 0],
    [s |-> 3, b |-> 0, E |-> 2, d |-> 0], [s |-> 0, b |-> 4, E |-> 3, d |-> 1],
    [s |-> 2, b |-> 2, E |-> 2, d |-> 0], [s |-> 0, b |-> 1, E |-> 1, d |-> 1] }

\* the program calls create_cache again: `cache` is what it returned
CreateCache ==
  /\ CanCall
  /\ \E a \in CreateArgs :
       /\ \E o \in create_cache_call(a.s, a.b, a.E, a.d) :
            /\ status' = o.status
            /\ cache' = IF o.status = "ok" THEN o.cache ELSE cache
       /\ call' = [NoCall EXCEPT !.name = "create_cache", !.args = a]
  /\ ncalls' = ncalls + 1
  /\ UNCHANGED <<miss_count, hit_count, dirty_eviction_count, clean_eviction_count,
                 way, dest, evicted, checkpoint, dec>>

NextCreate == CreateCache \/ CreateCheckpoint

SpecCreate == Init /\ [][NextCreate]_vars

(***************************************************************************)
(* Properties                                                              *)
(***************************************************************************)
\* The decomposition of a (small) address as the design states it:
\* offset = A mod 2^b, set = (A div 2^b) mod 2^s, tag = A div 2^(s+b).
OffsetOf(c, addr) == Nat64(addr) % Pow2(c.b)
SetOf(c, addr) == (Nat64(addr) \div Pow2(c.b)) % Pow2(c.s)
TagOf(c, addr) == W(Nat64(addr) \div Pow2(c.s + c.b))

\* addr is resident: a valid line of its set carries its tag
Resident(c, addr) ==
  \E i \in 0..(c.E - 1) :
    c.sets[SetOf(c, addr)][i].valid /\ c.sets[SetOf(c, addr)][i].tag = TagOf(c, addr)

\* this step is a call of access_data
AccessStep == call'.name = "access_data" /\ ncalls' = ncalls + 1

\* this step is a call of access_data that missed
MissStep == AccessStep /\ ~call'.hit

\* select_line returned a line of the set in this miss
VictimInSet == call'.victim \in 0..(cache.E - 1)

\* the line select_line picked in this miss, as it was before the call
VictimBefore == cache.sets[SetOf(cache, call'.addr)][call'.victim]

\* C1: every access_data call increases exactly one of hit_count and
\* miss_count, by exactly 1, and leaves the other unchanged.
C1_OneOfHitMiss ==
  [][AccessStep =>
       \/ (hit_count' = hit_count + 1 /\ miss_count' = miss_count)
       \/ (miss_count' = miss_count + 1 /\ hit_count' = hit_count)]_vars

\* C1 witness: an access that hit, after a call that missed
C1_Witness ==
  call.name = "access_data" /\ call.hit /\ hit_count = 1 /\ miss_count = 1

\* C2: when an access misses, the fill makes the address resident, and the
\* same access made again at once is a hit (hit_count + 1, miss_count same).
C2_MissThenHit ==
  [][/\ MissStep /\ status' = "ok" => Resident(cache', call'.addr)
     /\ (/\ call.name = "access_data" /\ ~call.hit /\ status = "ok"
         /\ AccessStep /\ call'.addr = call.addr /\ call'.operation = call.operation)
        => (call'.hit /\ hit_count' = hit_count + 1 /\ miss_count' = miss_count)]_vars

C4_CleanEvictionIff ==
  [][(AccessStep /\ (call'.hit \/ VictimInSet)) =>
       /\ clean_eviction_count' \in {clean_eviction_count, clean_eviction_count + 1}
       /\ (clean_eviction_count' = clean_eviction_count + 1)
            <=> (~call'.hit /\ VictimBefore.valid /\ ~VictimBefore.dirty)
       /\ (~call'.hit /\ ~VictimBefore.valid)
            => /\ clean_eviction_count' = clean_eviction_count
               /\ dirty_eviction_count' = dirty_eviction_count]_vars

\* every line of the set is valid
FullSet(c, set_index) == \A i \in 0..(c.E - 1) : c.sets[set_index][i].valid

\* the way of least recency, the lowest such way on a tie
MinRecencyWay(c, set_index) ==
  CHOOSE i \in 0..(c.E - 1) :
    /\ \A j \in 0..(c.E - 1) : c.sets[set_index][i].lru <= c.sets[set_index][j].lru
    /\ \A j \in 0..(i - 1) : c.sets[set_index][j].lru > c.sets[set_index][i].lru

Places(c) == (0..(NumSets(c) - 1)) \X (0..(c.E - 1))

\* C6: no two valid lines of the cache carry the same recency value.
C6_RecencyDistinct ==
  \A p, q \in Places(cache) :
    (p # q /\ cache.sets[p[1]][p[2]].valid /\ cache.sets[q[1]][q[2]].valid)
      => cache.sets[p[1]][p[2]].lru # cache.sets[q[1]][q[2]].lru

\* C6 witness: two valid lines, and the last call an access that hit
C6_Witness ==
  /\ call.name = "access_data" /\ call.hit
  /\ \E p, q \in Places(cache) :
       p # q /\ cache.sets[p[1]][p[2]].valid /\ cache.sets[q[1]][q[2]].valid

MShl(x, n) == IF n >= ADDRESS_LENGTH THEN Zero ELSE Shl(x, n)
MShr(x, n) == IF n >= ADDRESS_LENGTH THEN Zero ELSE Shr(x, n)

\* C8: for s + b <= 64 the decoded fields satisfy offset < 2^b,
\* set < 2^s, (tag << (s+b)) | (set << b) | offset = A, and tag = 0 when
\* s + b = 64.
C8_DecodeRoundTrip ==
  /\ MShr(dec.block_offset, dec.b) = Zero
  /\ MShr(dec.set_index, dec.s) = Zero
  /\ Or(Or(MShl(dec.tag, dec.s + dec.b), MShl(dec.set_index, dec.b)), dec.block_offset)
       = dec.addr
  /\ (dec.s + dec.b = ADDRESS_LENGTH) => dec.tag = Zero

\* C9: no step lowers hit_count, miss_count, dirty_eviction_count or
\* clean_eviction_count.
C9_CountersMonotone ==
  [][/\ hit_count' >= hit_count
     /\ miss_count' >= miss_count
     /\ dirty_eviction_count' >= dirty_eviction_count
     /\ clean_eviction_count' >= clean_eviction_count]_vars

\* C9 witness: all four counters have moved
C9_Witness ==
  /\ hit_count > 0 /\ miss_count > 0
  /\ dirty_eviction_count > 0 /\ clean_eviction_count > 0

\* the accessor called in this step, on an address that violates its
\* precondition: not resident, or for the word accessors eight bytes that
\* run past the block
AccessorNames == {"get_byte_cache", "get_word_cache", "set_byte_cache", "set_word_cache"}
WordAccessorNames == {"get_word_cache", "set_word_cache"}
BadAccessorStep ==
  /\ call'.name \in AccessorNames /\ ncalls' = ncalls + 1
  /\ \/ ~Resident(cache, call'.addr)
     \/ /\ call'.name \in WordAccessorNames
        /\ OffsetOf(cache, call'.addr) + 8 > BlockSize(cache)

\* C10: an accessor call that violates its precondition ends in an error
\* and leaves every line and every statistics counter unchanged.
C10_BadAccessorNoEffect ==
  [][BadAccessorStep =>
       /\ status' # "ok"
       /\ cache' = cache
       /\ hit_count' = hit_count
       /\ miss_count' = miss_count
       /\ dirty_eviction_count' = dirty_eviction_count
       /\ clean_eviction_count' = clean_eviction_count]_vars

\* this step is a call of create_cache
CreateStep == call'.name = "create_cache" /\ ncalls' = ncalls + 1

\* every line of every set is as a new cache has it
AllLinesNew(c) ==
  \A i \in DOMAIN c.sets : \A j \in DOMAIN c.sets[i] :
    /\ ~c.sets[i][j].valid /\ ~c.sets[i][j].dirty
    /\ c.sets[i][j].tag = Zero /\ c.sets[i][j].lru = 0

\* C11: create_cache with index bits + offset bits > 64 or associativity 0
\* fails with an invalid-geometry error and produces no cache; with any
\* other arguments it returns a cache of 2^s sets of E lines, every line
\* invalid, clean, tag 0, recency 0.
C11_CreateChecksGeometry ==
  [][CreateStep =>
       IF call'.args.s + call'.args.b > ADDRESS_LENGTH \/ call'.args.E = 0
         THEN status' = "invalid geometry" /\ cache' = cache
         ELSE /\ status' = "ok"
              /\ cache'.s = call'.args.s /\ cache'.b = call'.args.b
              /\ cache'.E = call'.args.E
              /\ DOMAIN cache'.sets = 0..(Pow2(call'.args.s) - 1)
              /\ \A i \in DOMAIN cache'.sets :
                   DOMAIN cache'.sets[i] = 0..(call'.args.E - 1)
              /\ AllLinesNew(cache')]_vars

\* this step is a call of create_checkpoint that returned
CheckpointStep ==
  call'.name = "create_checkpoint" /\ ncalls' = ncalls + 1 /\ status' = "ok"

HitStep == AccessStep /\ call'.hit

\* C13: on a hit the matched line's dirty flag becomes true when the
\* operation is a write and is left as it was when it is a read; no hit
\* makes a dirty line clean.
C13_DirtyOnHit ==
  [][HitStep =>
       /\ way' \in 0..(cache.E - 1)
       /\ cache.sets[SetOf(cache, call'.addr)][way'].valid
       /\ cache.sets[SetOf(cache, call'.addr)][way'].tag = TagOf(cache, call'.addr)
       /\ cache'.sets[SetOf(cache, call'.addr)][way'].dirty
            = IF call'.operation = WRITE
                THEN TRUE
                ELSE cache.sets[SetOf(cache, call'.addr)][way'].dirty
       /\ \A p \in Places(cache) :
            cache.sets[p[1]][p[2]].dirty => cache'.sets[p[1]][p[2]].dirty]_vars

\* C13 witness: a read hit, after another hit, on a line that is dirty
C13_Witness ==
  /\ call.name = "access_data" /\ call.hit /\ call.operation = READ
  /\ hit_count = 2
  /\ cache.sets[SetOf(cache, call.addr)][way].dirty

\* the ways of addr's set that hold addr
Holders(c, addr) ==
  { i \in 0..(c.E - 1) :
      c.sets[SetOf(c, addr)][i].valid /\ c.sets[SetOf(c, addr)][i].tag = TagOf(c, addr) }

\* C14: after every access, hit or miss, the line that now holds the
\* address carries a recency strictly greater than its own recency before
\* the access and strictly greater than that of every other line.
C14_RecencyStamped ==
  [][(AccessStep /\ status' = "ok") =>
       \E i \in Holders(cache', call'.addr) :
         /\ cache'.sets[SetOf(cache, call'.addr)][i].lru
              > cache.sets[SetOf(cache, call'.addr)][i].lru
         /\ \A p \in Places(cache') :
              p # <<SetOf(cache, call'.addr), i>>
                => cache'.sets[SetOf(cache, call'.addr)][i].lru
                     > cache'.sets[p[1]][p[2]].lru]_vars

\* C15: after a miss the victim line is valid, carries the tag of the
\* address and is dirty exactly when the operation was a write; no other
\* line of the cache is changed.
C15_FillWritesVictim ==
  [][(MissStep /\ VictimInSet /\ status' = "ok") =>
       /\ cache'.sets[SetOf(cache, call'.addr)][call'.victim].valid
       /\ cache'.sets[SetOf(cache, call'.addr)][call'.victim].tag
            = TagOf(cache, call'.addr)
       /\ cache'.sets[SetOf(cache, call'.addr)][call'.victim].dirty
            = (call'.operation = WRITE)
       /\ \A p \in Places(cache) :
            p # <<SetOf(cache, call'.addr), call'.victim>>
              => cache'.sets[p[1]][p[2]] = cache.sets[p[1]][p[2]]]_vars

\* the ways of a set whose line is not valid
InvalidWays(c, set_index) == { i \in 0..(c.E - 1) : ~c.sets[set_index][i].valid }

\* the least member of a set of numbers
Least(S) == CHOOSE x \in S : \A y \in S : x <= y

\* C16: on a miss into a set with a line that is not valid, the line
\* selected is the invalid line of lowest way, whatever the lines' recency,
\* and the eviction record says the victim was not valid.
C16_FirstInvalidWay ==
  [][(MissStep /\ InvalidWays(cache, SetOf(cache, call'.addr)) # {}) =>
       /\ status' = "ok"
       /\ call'.victim = Least(InvalidWays(cache, SetOf(cache, call'.addr)))
       /\ evicted'.valid = FALSE]_vars

\* C16 witness: a miss into a set whose way 0 is valid and whose way 1 is
\* not; way 1 was selected
C16_Witness ==
  /\ call.name = "access_data" /\ ~call.hit /\ status = "ok"
  /\ cache.E = 2
  /\ cache.sets[SetOf(cache, call.addr)][0].valid
  /\ ~cache.sets[SetOf(cache, call.addr)][1].valid
  /\ call.victim = 1 /\ ~evicted.valid

\* C17: the eviction record of a miss carries the address
\* (victim's old tag << (s+b)) | (set index << b), block offset 0, whatever
\* the block offset of the incoming address; its valid and dirty are the
\* victim's before the call.
C17_EvictedAddress ==
  [][(MissStep /\ VictimInSet /\ status' = "ok") =>
       /\ evicted'.addr
            = Or(Shl(VictimBefore.tag, cache.s + cache.b),
                 Shl(W(SetOf(cache, call'.addr)), cache.b))
       /\ evicted'.valid = VictimBefore.valid
       /\ evicted'.dirty = VictimBefore.dirty]_vars

\* this step is a call of set_byte_cache
SetByteStep == call'.name = "set_byte_cache" /\ ncalls' = ncalls + 1

C19_TagUnique ==
  \A i \in DOMAIN cache.sets :
    \A j, k \in DOMAIN cache.sets[i] :
      (j # k /\ cache.sets[i][j].valid /\ cache.sets[i][k].valid)
        => cache.sets[i][j].tag # cache.sets[i][k].tag

\* C19 witness: two calls were made, the last an access that missed, on a
\* cache with a set of two valid lines
C19_Witness ==
  /\ call.name = "access_data" /\ ~call.hit /\ status = "ok" /\ ncalls = 2
  /\ cache.E = 2
  /\ cache.sets[0][0].valid /\ cache.sets[0][1].valid

\* this step is a call of one of the four accessors
AccessorStep == call'.name \in AccessorNames /\ ncalls' = ncalls + 1

====
